---- MODULE Spec2Model ----
(***************************************************************************)
(* State-machine model of the VRM/GLTF/GLB viewer (src/main.cpp).          *)
(*                                                                         *)
(* Numbers.  The program computes in 32-bit floats; the model computes in  *)
(* fixed point with truncation:                                            *)
(*   - lengths (positions, bounds, radius, camera distance) are integers   *)
(*     counting 0.0001, so 1.0f is 10000 and 0.001f is 10;                 *)
(*   - angles are integers counting 0.002 degrees, the angle of one pixel  *)
(*     of drag (main.cpp:834-835), so 89.0f is 44500;                      *)
(*   - pointer coordinates are integers (pixels), scroll amounts integers. *)
(* Non-finite floats (inf, NaN) are outside the model.                     *)
(***************************************************************************)
EXTENDS Integers, Sequences, FiniteSets, TLC

VARIABLES
    meshes,                \* state.model.meshes : sequence of RenderMesh
    model_center,          \* state.model.center
    model_radius,          \* state.model.radius
    model_loaded,          \* state.model_loaded
    cam_distance,          \* state.cam_distance
    cam_azimuth,           \* state.cam_azimuth
    cam_elevation,         \* state.cam_elevation
    cam_target,            \* state.cam_target
    mouse_down,            \* state.mouse_down
    last_mouse_x,          \* state.last_mouse_x
    last_mouse_y,          \* state.last_mouse_y
    default_texture,       \* state.default_texture      (sg_image id)
    default_texture_view,  \* state.default_texture_view (sg_view id)
    buffers,               \* GPU: live sg_buffer id -> [usage, data]
    live_images,           \* GPU: ids of live sg_image objects
    live_views,            \* GPU: ids of live sg_view objects
    next_id,               \* GPU: id the next sg_make_* call returns
    stale,                 \* ids made by loads earlier than the current model's
    made,                  \* ids made by the load that built the current model
    num_loads,             \* number of load_model calls that got past parsing
    trace,                 \* calls issued by the most recent callback, in order
    last_call,             \* the most recent callback: [cb, arg, ret]
    phase,                 \* "running" until cleanup() has run, then "shutdown"
    gui_state,             \* the caller's GuiState, which gui_render() is handed
    clay,                  \* the layout library: pointer, elements, last layout
    last_toggle_id,        \* the static of gui.c:181 (tested and set by a click)
    last_toggle_id_else,   \* the static of gui.c:189 (reset when not pressed)
    press_flipped,         \* whether the press the panel last saw has flipped a toggle
    gui_call               \* the most recent call into gui.c: [fn, ev, ret]

vars == <<meshes, model_center, model_radius, model_loaded, cam_distance,
          cam_azimuth, cam_elevation, cam_target, mouse_down, last_mouse_x,
          last_mouse_y, default_texture, default_texture_view, buffers,
          live_images, live_views, next_id, stale, made, num_loads, trace,
          last_call, phase, gui_state, clay, last_toggle_id,
          last_toggle_id_else, press_flipped, gui_call>>

camera == <<cam_target, cam_distance, cam_azimuth, cam_elevation>>

-----------------------------------------------------------------------------
(* Bounds of the model *)

\* successful loads explored in one run
MaxLoads == 2
\* the far pointer coordinate (pixels); one drag across it turns 120 degrees
MouseFar == 60000
\* the camera distance beyond which the model stops scrolling out
MaxDistance == 120000
\* the azimuth (either side of 0) beyond which the model stops dragging
MaxAzimuth == 90000

-----------------------------------------------------------------------------
(* Program constants, in the model's units *)

\* 1e10f of main.cpp:389-390.  The code's value lies above every coordinate
\* of a real asset; the model keeps that relation at its own scale: every
\* baked coordinate of Assets is below BOUNDS_INIT in magnitude.
BOUNDS_INIT == 13000
RADIUS_EPS == 10
RADIUS_FLOOR == 10000
MIN_DISTANCE == 1000
INIT_DISTANCE == 50000
INIT_AZIMUTH == 22500
INIT_ELEVATION == 10000
RESET_AZIMUTH == 22500
RESET_ELEVATION == 7500
ELEVATION_MAX == 44500
SG_INVALID_ID == 0
NORMAL_EPS == 1
UNIT == 10000

-----------------------------------------------------------------------------
(* Arithmetic helpers *)

HMM_MIN(a, b) == IF a > b THEN b ELSE a
HMM_MAX(a, b) == IF a < b THEN b ELSE a

HMM_Clamp(lo, value, hi) ==
    LET r1 == IF value < lo THEN lo ELSE value
    IN  IF r1 > hi THEN hi ELSE r1

RECURSIVE SqrtSearch(_, _, _)
SqrtSearch(n, lo, hi) ==
    IF lo >= hi THEN lo
    ELSE LET mid == (lo + hi + 1) \div 2
         IN  IF mid * mid <= n THEN SqrtSearch(n, mid, hi)
                               ELSE SqrtSearch(n, lo, mid - 1)

\* sqrtf, truncated to the unit
sqrtf(n) == SqrtSearch(n, 0, 46340)

HMM_LenV3(v) == sqrtf(v[1] * v[1] + v[2] * v[2] + v[3] * v[3])
HMM_AddV3(a, b) == <<a[1] + b[1], a[2] + b[2], a[3] + b[3]>>
HMM_SubV3(a, b) == <<a[1] - b[1], a[2] - b[2], a[3] - b[3]>>
\* HMM_MulV3F(v, 0.5f)
HalfV3(v) == <<v[1] \div 2, v[2] \div 2, v[3] \div 2>>

-----------------------------------------------------------------------------
(* Assets: what cgltf_parse_file / cgltf_load_buffers deliver for a file.   *)
(* A file is named by a string; AssetOf gives the parsed cgltf_data:        *)
(*   parse_ok, buffers_ok : results of the two cgltf calls                  *)
(*   images  : sequence of [source, decodes]; source says whether the image *)
(*             has a buffer_view, a uri, or neither; decodes is whether     *)
(*             stb_image returns pixels for it                              *)
(*   meshes  : sequence of meshes, each a sequence of primitives            *)
(*   nodes   : sequence of [mesh, matrix]; mesh = 0 when node->mesh is null,*)
(*             matrix is cgltf_node_transform_world's column-major result   *)

IdentityMatrix == <<1, 0, 0, 0,   0, 1, 0, 0,   0, 0, 1, 0,   0, 0, 0, 1>>
\* uniform scale 2, translation (200, 0, -200)
ScaleMoveMatrix == <<2, 0, 0, 0,   0, 2, 0, 0,   0, 0, 2, 0,   200, 0, -200, 1>>

White == <<100, 100, 100, 100>>
Tint == <<80, 50, 20, 100>>

NoMaterial ==
    [present |-> FALSE, has_pbr |-> FALSE, base_color |-> White,
     has_texture |-> FALSE, image |-> 0]
\* a material with pbr_metallic_roughness; image = 0 when the base color
\* texture has no image, has_texture = FALSE when there is no texture
PbrMaterial(color, has_texture, image) ==
    [present |-> TRUE, has_pbr |-> TRUE, base_color |-> color,
     has_texture |-> has_texture, image |-> image]
\* a material without pbr_metallic_roughness
PlainMaterial ==
    [present |-> TRUE, has_pbr |-> FALSE, base_color |-> Tint,
     has_texture |-> FALSE, image |-> 0]

\* a primitive without a normal accessor
Prim(type, has_position, positions, has_indices, indices, material) ==
    [type |-> type, has_position |-> has_position, positions |-> positions,
     has_indices |-> has_indices, indices |-> indices, material |-> material,
     has_normal |-> FALSE, normals |-> <<>>]

\* the same primitive with a normal accessor of one normal per position
WithNormals(prim, normals) ==
    [prim EXCEPT !.has_normal = TRUE, !.normals = normals]

Image(source, decodes) == [source |-> source, decodes |-> decodes]

Asset(parse_ok, buffers_ok, images, ms, nodes) ==
    [parse_ok |-> parse_ok, buffers_ok |-> buffers_ok, images |-> images,
     meshes |-> ms, nodes |-> nodes]

Node(mesh, matrix) == [mesh |-> mesh, matrix |-> matrix]

Cube == << <<-3000, -3000, -3000>>, <<3000, -3000, -3000>>,
           <<3000, 3000, 3000>>, <<-3000, 3000, 3000>> >>
SmallTri == << <<0, 0, 0>>, <<200, 0, 0>>, <<0, 200, 0>> >>
Speck == << <<40, 40, 40>>, <<40, 40, 40>>, <<44, 40, 40>> >>
\* normals: a unit one, a null one, one of length 0.0001
TriNormals == << <<0, 0, 10000>>, <<0, 0, 0>>, <<1, 0, 0>> >>
\* normals: one of length 0.0002, one along no axis, a null one, one that
\* points up
CubeNormals == << <<0, 0, -2>>, <<3000, 4000, 0>>, <<0, 0, 0>>, <<0, 5000, 0>> >>

AssetNames ==
    {"broken.glb", "nobuffers.gltf", "point.glb", "small.gltf", "scene.vrm",
     "missingtex.gltf", "badindex.glb", "empty.gltf", "instanced.glb"}

AssetOf(file) ==
    CASE file = "broken.glb" ->
           Asset(FALSE, FALSE, <<>>, <<>>, <<>>)
      [] file = "nobuffers.gltf" ->
           Asset(TRUE, FALSE, <<Image("uri", TRUE)>>,
                 << <<Prim("triangles", TRUE, SmallTri, FALSE, <<>>, NoMaterial)>> >>,
                 <<Node(1, IdentityMatrix)>>)
      [] file = "point.glb" ->
           \* a single vertex, no indices, no material
           Asset(TRUE, TRUE, <<>>,
                 << <<Prim("triangles", TRUE, << <<100, 100, 100>> >>, FALSE, <<>>,
                          NoMaterial)>> >>,
                 <<Node(1, IdentityMatrix)>>)
      [] file = "small.gltf" ->
           \* one indexed triangle 0.02 across with an external texture
           Asset(TRUE, TRUE, <<Image("uri", TRUE)>>,
                 << <<WithNormals(Prim("triangles", TRUE, SmallTri, TRUE, <<0, 1, 2>>,
                                       PbrMaterial(Tint, TRUE, 1)),
                                  TriNormals)>> >>,
                 <<Node(1, IdentityMatrix)>>)
      [] file = "scene.vrm" ->
           \* two primitives sharing embedded image 1, a line primitive, a
           \* primitive without positions, an image no primitive references,
           \* a node without a mesh and a scaled node
           Asset(TRUE, TRUE,
                 <<Image("buffer_view", TRUE), Image("uri", TRUE)>>,
                 << <<WithNormals(Prim("triangles", TRUE, Cube, TRUE,
                                       <<0, 1, 2, 2, 3, 0>>,
                                       PbrMaterial(White, TRUE, 1)),
                                  CubeNormals),
                      Prim("lines", TRUE, SmallTri, FALSE, <<>>, NoMaterial),
                      Prim("triangles", FALSE, <<>>, TRUE, <<0, 1, 2>>, NoMaterial)>>,
                    <<Prim("triangles", TRUE, SmallTri, FALSE, <<>>,
                          PbrMaterial(Tint, TRUE, 1))>> >>,
                 <<Node(0, IdentityMatrix), Node(1, ScaleMoveMatrix),
                   Node(2, IdentityMatrix)>>)
      [] file = "missingtex.gltf" ->
           \* image 1: external file missing; image 2: embedded bytes corrupt;
           \* image 3: neither buffer view nor uri
           Asset(TRUE, TRUE,
                 <<Image("uri", FALSE), Image("buffer_view", FALSE),
                   Image("none", FALSE)>>,
                 << <<Prim("triangles", TRUE, Cube, FALSE, <<>>,
                          PbrMaterial(Tint, TRUE, 1)),
                      Prim("triangles", TRUE, SmallTri, FALSE, <<>>,
                          PbrMaterial(White, TRUE, 2)),
                      Prim("triangles", TRUE, SmallTri, TRUE, <<2, 1, 0>>,
                          PbrMaterial(White, TRUE, 0))>> >>,
                 <<Node(1, IdentityMatrix)>>)
      [] file = "badindex.glb" ->
           \* coincident vertices; an index that names no vertex
           Asset(TRUE, TRUE, <<>>,
                 << <<Prim("triangles", TRUE, Speck, TRUE, <<0, 1, 5>>,
                          PlainMaterial)>> >>,
                 <<Node(1, IdentityMatrix)>>)
      [] file = "instanced.glb" ->
           \* mesh 2 placed before mesh 1, mesh 1 (two triangle primitives
           \* around a point primitive) placed twice; one embedded image,
           \* which the first primitive of mesh 1 names and the others do not
           Asset(TRUE, TRUE, <<Image("buffer_view", TRUE)>>,
                 << <<Prim("triangles", TRUE, SmallTri, TRUE, <<0, 1, 2>>,
                          PbrMaterial(Tint, TRUE, 1)),
                      Prim("points", TRUE, SmallTri, FALSE, <<>>, NoMaterial),
                      Prim("triangles", TRUE, Speck, FALSE, <<>>,
                          PbrMaterial(White, FALSE, 0))>>,
                    <<Prim("triangles", TRUE, Cube, FALSE, <<>>, NoMaterial)>> >>,
                 <<Node(2, IdentityMatrix), Node(1, ScaleMoveMatrix),
                   Node(1, IdentityMatrix)>>)
      [] OTHER ->
           \* "empty.gltf": a node, but none that references a mesh
           Asset(TRUE, TRUE, <<>>, <<>>, <<Node(0, IdentityMatrix)>>)

-----------------------------------------------------------------------------
(* The GPU (sokol_gfx) as load_model, frame and cleanup use it.  Every      *)
(* sg_make_* call returns a fresh id; sg_destroy_* of an id that is not     *)
(* live does nothing.  Operators take and return a record L holding the     *)
(* GPU state and what the running callback has built so far.                *)

Call(op, id, n) == [op |-> op, id |-> id, n |-> n]

sg_make_buffer(L, usage, data) ==
    [L EXCEPT !.buffers = @ @@ (L.next_id :> [usage |-> usage, data |-> data]),
              !.next_id = @ + 1,
              !.made = @ \cup {L.next_id},
              !.trace = Append(@, Call("sg_make_buffer", L.next_id, Len(data)))]

sg_make_image(L) ==
    [L EXCEPT !.live_images = @ \cup {L.next_id},
              !.next_id = @ + 1,
              !.made = @ \cup {L.next_id},
              !.trace = Append(@, Call("sg_make_image", L.next_id, 0))]

sg_make_view(L, img) ==
    [L EXCEPT !.live_views = @ \cup {L.next_id},
              !.next_id = @ + 1,
              !.made = @ \cup {L.next_id},
              !.trace = Append(@, Call("sg_make_view", L.next_id, img))]

sg_destroy_buffer(L, id) ==
    [L EXCEPT !.buffers = [b \in (DOMAIN @) \ {id} |-> @[b]],
              !.trace = Append(@, Call("sg_destroy_buffer", id, 0))]

sg_destroy_view(L, id) ==
    [L EXCEPT !.live_views = @ \ {id},
              !.trace = Append(@, Call("sg_destroy_view", id, 0))]

sg_destroy_image(L, id) ==
    [L EXCEPT !.live_images = @ \ {id},
              !.trace = Append(@, Call("sg_destroy_image", id, 0))]

\* the record a callback starts from
Begin ==
    [meshes |-> meshes, buffers |-> buffers, live_images |-> live_images,
     live_views |-> live_views, next_id |-> next_id, made |-> {},
     trace |-> <<>>, textures |-> <<>>, texture_views |-> <<>>,
     min_bounds |-> <<BOUNDS_INIT, BOUNDS_INIT, BOUNDS_INIT>>,
     max_bounds |-> <<-BOUNDS_INIT, -BOUNDS_INIT, -BOUNDS_INIT>>]

-----------------------------------------------------------------------------
(* Helper functions of main.cpp *)

create_texture_view(L, img) == sg_make_view(L, img)

\* the image handle the call returns, and the GPU after it
load_texture_from_buffer(L, image) ==
    IF ~image.decodes
    THEN [L |-> L, img |-> default_texture]
    ELSE [L |-> sg_make_image(L), img |-> L.next_id]

\* load_texture_from_file returning the invalid handle when decoding fails
load_texture_from_file_invalid(L, image) ==
    IF ~image.decodes
    THEN [L |-> L, img |-> SG_INVALID_ID]
    ELSE [L |-> sg_make_image(L), img |-> L.next_id]

load_texture_from_file(L, image) ==
    IF ~image.decodes
    THEN [L |-> L, img |-> default_texture]
    ELSE [L |-> sg_make_image(L), img |-> L.next_id]

-----------------------------------------------------------------------------
(* load_model, step by step *)

\* DestroyMesh without the comparison against the default texture
DestroyMeshAndTexture(L, mesh) ==
    LET L1 == sg_destroy_buffer(L, mesh.vertex_buffer)
        L2 == IF mesh.has_indices THEN sg_destroy_buffer(L1, mesh.index_buffer)
                                  ELSE L1
    IN  sg_destroy_image(sg_destroy_view(L2, mesh.texture_view), mesh.texture)

\* body of the "Clear existing model" loop for one mesh
DestroyMesh(L, mesh) ==
    LET L1 == sg_destroy_buffer(L, mesh.vertex_buffer)
        L2 == IF mesh.has_indices THEN sg_destroy_buffer(L1, mesh.index_buffer)
                                  ELSE L1
    IN  IF mesh.texture # default_texture
        THEN sg_destroy_image(sg_destroy_view(L2, mesh.texture_view), mesh.texture)
        ELSE L2

RECURSIVE DestroyMeshes(_, _, _)
DestroyMeshes(L, ms, i) ==
    IF i > Len(ms) THEN L
    ELSE DestroyMeshes(DestroyMesh(L, ms[i]), ms, i + 1)

\* ClearModel without meshes.clear()
ClearModelKeepingList(L) == DestroyMeshes(L, L.meshes, 1)

\* "Clear existing model": the destroy loop, then meshes.clear()
ClearModel(L) == [DestroyMeshes(L, L.meshes, 1) EXCEPT !.meshes = <<>>]

\* body of the "Load textures" loop for one image
LoadTexture(L, image) ==
    LET r == IF image.source = "buffer_view" THEN load_texture_from_buffer(L, image)
             ELSE IF image.source = "uri" THEN load_texture_from_file(L, image)
             ELSE [L |-> L, img |-> default_texture]
        L1 == r.L
        L2 == IF r.img # default_texture THEN create_texture_view(L1, r.img) ELSE L1
        view == IF r.img # default_texture THEN L1.next_id ELSE default_texture_view
    IN  [L2 EXCEPT !.textures = Append(@, r.img),
                   !.texture_views = Append(@, view)]

RECURSIVE LoadTextures(_, _, _)
LoadTextures(L, images, i) ==
    IF i > Len(images) THEN L
    ELSE LoadTextures(LoadTexture(L, images[i]), images, i + 1)

\* "Apply node transform": the 3x4 part of the column-major node matrix
TransformPoint(m, p) ==
    << m[1] * p[1] + m[5] * p[2] + m[9]  * p[3] + m[13],
       m[2] * p[1] + m[6] * p[2] + m[10] * p[3] + m[14],
       m[3] * p[1] + m[7] * p[2] + m[11] * p[3] + m[15] >>

\* a / b for b > 0, rounded towards zero
Quot(a, b) == IF a < 0 THEN -((-a) \div b) ELSE a \div b

\* "Apply node rotation": the upper 3x3 of the node matrix
TransformNormal(m, n) ==
    << m[1] * n[1] + m[5] * n[2] + m[9]  * n[3],
       m[2] * n[1] + m[6] * n[2] + m[10] * n[3],
       m[3] * n[1] + m[7] * n[2] + m[11] * n[3] >>

UpNormal == <<0, UNIT, 0>>

\* BakeNormal renormalizing a vector whose length is just the epsilon
BakeNormalAtEpsilon(m, norm) ==
    LET n == TransformNormal(m, norm)
        len == HMM_LenV3(n)
    IN  IF len >= NORMAL_EPS
        THEN <<Quot(n[1] * UNIT, len), Quot(n[2] * UNIT, len), Quot(n[3] * UNIT, len)>>
        ELSE UpNormal

\* "Read normals", one vertex of a primitive with a normal accessor
BakeNormal(m, norm) ==
    LET n == TransformNormal(m, norm)
        len == HMM_LenV3(n)
    IN  IF len > NORMAL_EPS
        THEN <<Quot(n[1] * UNIT, len), Quot(n[2] * UNIT, len), Quot(n[3] * UNIT, len)>>
        ELSE UpNormal

\* "Update bounds" over the baked vertices of one primitive
RECURSIVE UpdateBounds(_, _, _)
UpdateBounds(L, verts, vi) ==
    IF vi > Len(verts) THEN L
    ELSE LET t == verts[vi].pos
             lo == L.min_bounds
             hi == L.max_bounds
         IN  UpdateBounds(
               [L EXCEPT !.min_bounds = <<HMM_MIN(lo[1], t[1]), HMM_MIN(lo[2], t[2]),
                                          HMM_MIN(lo[3], t[3])>>,
                         !.max_bounds = <<HMM_MAX(hi[1], t[1]), HMM_MAX(hi[2], t[2]),
                                          HMM_MAX(hi[3], t[3])>>],
               verts, vi + 1)

\* ResolveMaterial giving an untextured primitive the asset's first image
ResolveMaterialFirstImage(L, mat) ==
    LET textured == mat.present /\ mat.has_pbr /\ mat.has_texture /\ mat.image # 0
                    /\ mat.image - 1 < Len(L.textures)
        idx == IF textured THEN mat.image ELSE 1
    IN  [base_color |-> IF mat.present /\ mat.has_pbr THEN mat.base_color ELSE White,
         texture |-> IF idx <= Len(L.textures) THEN L.textures[idx]
                                               ELSE default_texture,
         texture_view |-> IF idx <= Len(L.textures) THEN L.texture_views[idx]
                                                    ELSE default_texture_view]

\* "Get material": base color, texture and view of a primitive
ResolveMaterial(L, mat) ==
    LET textured == mat.present /\ mat.has_pbr /\ mat.has_texture /\ mat.image # 0
                    /\ mat.image - 1 < Len(L.textures)
    IN  [base_color |-> IF mat.present /\ mat.has_pbr THEN mat.base_color ELSE White,
         texture |-> IF textured THEN L.textures[mat.image] ELSE default_texture,
         texture_view |-> IF textured THEN L.texture_views[mat.image]
                                      ELSE default_texture_view]

\* ReadIndices making an index buffer whether or not there are indices
ReadIndicesAlwaysBuffer(L, prim) ==
    [L |-> sg_make_buffer(L, "index", prim.indices),
     index_buffer |-> L.next_id,
     num_indices |-> Len(prim.indices),
     has_indices |-> prim.has_indices]

\* "Read indices if available": the GPU after it and the three RenderMesh
\* fields it sets (a RenderMesh starts zeroed)
ReadIndices(L, prim) ==
    IF prim.has_indices
    THEN [L |-> sg_make_buffer(L, "index", prim.indices),
          index_buffer |-> L.next_id,
          num_indices |-> Len(prim.indices),
          has_indices |-> TRUE]
    ELSE [L |-> L, index_buffer |-> SG_INVALID_ID, num_indices |-> 0,
          has_indices |-> FALSE]

\* body of the primitive loop (texture coordinates, which are copied as
\* read and which nothing else depends on, are left out of a vertex)
ProcessPrimitive(L, matrix, prim) ==
    IF prim.type # "triangles" THEN L
    ELSE IF ~prim.has_position THEN L
    ELSE
      LET vertex_count == Len(prim.positions)
          \* "Read positions", which also updates the bounds
          positioned == [vi \in 1..vertex_count |->
                            [pos |-> TransformPoint(matrix, prim.positions[vi])]]
          L1 == UpdateBounds(L, positioned, 1)
          \* "Read normals"
          vertices == [vi \in 1..vertex_count |->
                          [pos |-> positioned[vi].pos,
                           normal |-> IF prim.has_normal
                                      THEN BakeNormal(matrix, prim.normals[vi])
                                      ELSE UpNormal]]
          L2 == sg_make_buffer(L1, "vertex", vertices)
          ix == ReadIndices(L2, prim)
          L3 == ix.L
          m  == ResolveMaterial(L3, prim.material)
          render_mesh ==
              [vertex_buffer |-> L1.next_id,
               index_buffer  |-> ix.index_buffer,
               num_indices   |-> ix.num_indices,
               texture       |-> m.texture,
               texture_view  |-> m.texture_view,
               base_color    |-> m.base_color,
               has_indices   |-> ix.has_indices,
               num_vertices  |-> vertex_count]
      IN  [L3 EXCEPT !.meshes = Append(@, render_mesh),
                     !.trace = Append(@, Call("push_back", render_mesh.vertex_buffer, 0))]

\* ProcessPrimitives stopping after the first primitive of a mesh
ProcessPrimitivesFirstOnly(L, matrix, prims, pi) ==
    IF Len(prims) = 0 THEN L ELSE ProcessPrimitive(L, matrix, prims[1])

RECURSIVE ProcessPrimitives(_, _, _, _)
ProcessPrimitives(L, matrix, prims, pi) ==
    IF pi > Len(prims) THEN L
    ELSE ProcessPrimitives(ProcessPrimitive(L, matrix, prims[pi]), matrix, prims, pi + 1)

\* "Process all meshes in all nodes"
RECURSIVE ProcessNodes(_, _, _)
ProcessNodes(L, data, ni) ==
    IF ni > Len(data.nodes) THEN L
    ELSE LET node == data.nodes[ni]
         IN  IF node.mesh = 0 THEN ProcessNodes(L, data, ni + 1)
             ELSE ProcessNodes(
                    ProcessPrimitives(L, node.matrix, data.meshes[node.mesh], 1),
                    data, ni + 1)

\* ModelRadius without the replacement of a radius below the epsilon
ModelRadiusAsComputed(L) ==
    HMM_LenV3(HMM_SubV3(L.max_bounds, L.min_bounds)) \div 2

\* "Calculate model center and radius"
ModelCenter(L) == HalfV3(HMM_AddV3(L.min_bounds, L.max_bounds))
ModelRadius(L) ==
    LET radius == HMM_LenV3(HMM_SubV3(L.max_bounds, L.min_bounds)) \div 2
    IN  IF radius < RADIUS_EPS THEN RADIUS_FLOOR ELSE radius

\* radius * 2.5f
FramingDistance(radius) == (radius * 5) \div 2

\* everything load_model does to the mesh list and the GPU once both cgltf
\* calls have succeeded
BuildModel(data) ==
    ProcessNodes(LoadTextures(ClearModel(Begin), data.images, 1), data, 1)

-----------------------------------------------------------------------------
(* The settings panel (src/gui.c)                                            *)
(*                                                                           *)
(* GuiState's float fields are integers counting 0.001, so 5.0f is 5000.     *)
(* The layout library (Clay) is outside src/; the model keeps of it what     *)
(* gui.c reads: which elements the pointer is over, as sclay_new_frame()     *)
(* last latched it against the previous layout, and whether an element has   *)
(* been laid out.  Horizontal geometry follows from the fixed sizes of       *)
(* gui.c; the vertical position of a row depends on measured text, so the    *)
(* pointer carries the index of the widget row it is level with (0: none).   *)

\* CLAY_ID / CLAY_IDI
Element(name, index) == [name |-> name, index |-> index]

LeftPanel == Element("LeftPanel", 0)
ToggleButton(id) == Element("ToggleButton", id)
SliderTrack(id) == Element("SliderTrack", id)

\* the horizontal extent the layout gives an element: the panel starts at
\* the window's left edge; a row starts after the paddings of the panel (10),
\* of its group (6) and of the row (4), and its widget after the label (85)
\* and the row's child gap (8 for a toggle, 6 for a slider)
BoundingBox(element) ==
    CASE element.name = "LeftPanel"    -> [x |-> 0, width |-> 280]
      [] element.name = "ToggleButton" -> [x |-> 10 + 6 + 4 + 85 + 8, width |-> 50]
      [] element.name = "SliderTrack"  -> [x |-> 10 + 6 + 4 + 85 + 6, width |-> 100]

\* whether a pointer at (x, row) lies inside an element of the last layout
Covers(element, ptr) ==
    /\ ptr.x >= BoundingBox(element).x
    /\ ptr.x <= BoundingBox(element).x + BoundingBox(element).width
    /\ element.name = "LeftPanel" \/ element.index = ptr.row

Clay_PointerOver(c, element) == element \in c.over

Clay_GetElementData(c, element) ==
    [found |-> element \in c.elements, boundingBox |-> BoundingBox(element)]

\* update_slider_from_mouse without the clamp to the 0-1 range
update_slider_from_mouse_unclamped(min_val, max_val, box, mouseX) ==
    LET relativeX == mouseX - box.x
        ratio == (relativeX * 1000) \div box.width
    IN  min_val + ((ratio * (max_val - min_val)) \div 1000)

\* update_slider_from_mouse(), returning the value it stores
update_slider_from_mouse(min_val, max_val, box, mouseX) ==
    LET relativeX == mouseX - box.x
        ratio == (relativeX * 1000) \div box.width
        normalized == IF ratio < 0 THEN 0 ELSE IF ratio > 1000 THEN 1000 ELSE ratio
    IN  min_val + ((normalized * (max_val - min_val)) \div 1000)

\* what create_gui_layout() threads through its widgets: the GuiState behind
\* g_current_state, the layout library, the two statics of gui_render_toggle
\* and the elements declared so far
BeginLayout ==
    [state |-> gui_state, clay |-> clay, last_toggle_id |-> last_toggle_id,
     last_toggle_id_else |-> last_toggle_id_else, declared |-> {LeftPanel}]

\* gui_render_slider(id, label, &state->field, min_val, max_val, format)
gui_render_slider(G, id, field, min_val, max_val) ==
    LET trackId == SliderTrack(id)
        isHovered == Clay_PointerOver(G.clay, trackId)
        elemData == Clay_GetElementData(G.clay, trackId)
        G1 == IF G.state.mouse_pressed # 0 /\ isHovered /\ elemData.found
              THEN [G EXCEPT !.state[field] =
                        update_slider_from_mouse(min_val, max_val,
                                                 elemData.boundingBox,
                                                 G.state.mouse_x)]
              ELSE G
    IN  [G1 EXCEPT !.declared = @ \cup {trackId}]

\* gui_render_toggle(id, label, &state->field)
gui_render_toggle(G, id, field) ==
    LET toggleId == ToggleButton(id)
        isHovered == Clay_PointerOver(G.clay, toggleId)
        elemData == Clay_GetElementData(G.clay, toggleId)
        G1 == IF G.state.mouse_pressed # 0 /\ isHovered
              THEN IF elemData.found /\ G.last_toggle_id # id
                   THEN [G EXCEPT !.state[field] = IF @ = 0 THEN 1 ELSE 0,
                                  !.last_toggle_id = id]
                   ELSE G
              ELSE IF G.state.mouse_pressed = 0
                   THEN [G EXCEPT !.last_toggle_id_else = -1]
                   ELSE G
    IN  [G1 EXCEPT !.declared = @ \cup {toggleId}]

\* create_gui_layout(): the widgets, in the order they are declared
create_gui_layout(G) ==
    LET E1 == gui_render_toggle(G, 100, "show_skybox")
        E2 == gui_render_slider(E1, 101, "skybox_exposure", 100, 5000)
        E3 == gui_render_slider(E2, 102, "skybox_lod", 0, 4000)
        T1 == gui_render_slider(E3, 200, "toon_light_intensity", 0, 3000)
        T2 == gui_render_slider(T1, 201, "toon_shade_toony", 0, 1000)
        T3 == gui_render_slider(T2, 202, "toon_shade_strength", 0, 1000)
        T4 == gui_render_slider(T3, 203, "toon_rim_threshold", 0, 1000)
        T5 == gui_render_slider(T4, 204, "toon_rim_softness", 0, 1000)
        T6 == gui_render_slider(T5, 205, "toon_spec_intensity", 0, 1000)
    IN  IF G.state.is_vrm_model # 0 THEN T6 ELSE E3

\* a GuiState as a caller that has touched nothing yet holds it
ZeroGuiState ==
    [model_loaded |-> 0, is_vrm_model |-> 0, mesh_count |-> 0,
     use_toon_shader |-> 0, show_skybox |-> 0, skybox_exposure |-> 0,
     skybox_lod |-> 0, toon_light_intensity |-> 0, toon_shade_toony |-> 0,
     toon_shade_strength |-> 0, toon_rim_threshold |-> 0,
     toon_rim_softness |-> 0, toon_spec_intensity |-> 0, show_gui |-> 0,
     gui_hovered |-> 0, mouse_pressed |-> 0, mouse_x |-> 0, mouse_y |-> 0]

\* the layout library after gui_init(): nothing laid out, pointer at rest
ClayInit ==
    [pointer |-> [x |-> 0, row |-> 0], over |-> {},
     elements |-> {}, layout |-> {}]

\* what gui_call records: the function, its event (if any) and its result
GuiCall(fn, ev, ret) == [fn |-> fn, ev |-> ev, ret |-> ret]

NoEvent == [type |-> "NONE", x |-> 0, row |-> 0]

-----------------------------------------------------------------------------
(* Callbacks *)

\* what last_call records: the callback, its argument (a path, a key code,
\* a scroll amount or a button and its position) and what load_model
\* returned, if it was called
Returned(cb, arg, ret) == [cb |-> cb, arg |-> arg, ret |-> ret]

gpu == <<buffers, live_images, live_views, next_id>>
model == <<meshes, model_center, model_radius, model_loaded>>
pointer == <<mouse_down, last_mouse_x, last_mouse_y>>
defaults == <<default_texture, default_texture_view>>
history == <<stale, made, num_loads>>
gui_vars == <<gui_state, clay, last_toggle_id, last_toggle_id_else,
              press_flipped, gui_call>>
viewer_vars == <<meshes, model_center, model_radius, model_loaded, cam_distance,
                 cam_azimuth, cam_elevation, cam_target, mouse_down,
                 last_mouse_x, last_mouse_y, default_texture,
                 default_texture_view, buffers, live_images, live_views,
                 next_id, stale, made, num_loads, trace, last_call, phase>>

\* what argv[1] of sokol_main() can be: "" when argc is 1
CommandLines == {"", "small.gltf"}

\* after sokol_main(argc, argv), init() and gui_init()
Init ==
    /\ meshes = <<>>
    /\ model_center = <<0, 0, 0>>
    /\ model_radius = 0
    /\ model_loaded = FALSE
    /\ cam_distance = INIT_DISTANCE
    /\ cam_azimuth = INIT_AZIMUTH
    /\ cam_elevation = INIT_ELEVATION
    /\ cam_target = <<0, 0, 0>>
    /\ mouse_down = FALSE
    /\ last_mouse_x = 0
    /\ last_mouse_y = 0
    /\ default_texture = 1
    /\ default_texture_view = 2
    /\ buffers = <<>>
    /\ live_images = {1}
    /\ live_views = {2}
    /\ next_id = 3
    /\ stale = {}
    /\ made = {}
    /\ num_loads = 0
    /\ trace = <<Call("sg_make_image", 1, 0), Call("sg_make_view", 2, 1)>>
    /\ \E path \in CommandLines : last_call = Returned("init", path, "void")
    /\ phase = "running"
    /\ gui_state = ZeroGuiState
    /\ clay = ClayInit
    /\ last_toggle_id = -1
    /\ last_toggle_id_else = -1
    /\ press_flipped = FALSE
    /\ gui_call = GuiCall("gui_init", NoEvent, 0)

\* LoadFails, had the old model been cleared before the early returns
LoadFailsAfterClearing(filepath) ==
    LET L == ClearModel(Begin)
    IN  /\ trace' = L.trace
        /\ last_call' = Returned("load_model", filepath, "false")
        /\ meshes' = L.meshes
        /\ buffers' = L.buffers
        /\ live_images' = L.live_images
        /\ live_views' = L.live_views
        /\ UNCHANGED <<model_center, model_radius, model_loaded, camera, next_id,
                       history>>

\* LoadFails, had a failed load taken the model off display
LoadFailsUnloading(filepath) ==
    /\ trace' = <<>>
    /\ last_call' = Returned("load_model", filepath, "false")
    /\ model_loaded' = FALSE
    /\ UNCHANGED <<meshes, model_center, model_radius, camera, gpu, history>>

\* load_model(): the two early returns
LoadFails(filepath) ==
    /\ trace' = <<>>
    /\ last_call' = Returned("load_model", filepath, "false")
    /\ UNCHANGED <<model, camera, gpu, history>>

\* load_model(filepath), called from the FILES_DROPPED case of event()
load_model(filepath) ==
    LET data == AssetOf(filepath)
    IN  IF ~data.parse_ok \/ ~data.buffers_ok
        THEN LoadFails(filepath)
        ELSE LET L == BuildModel(data)
                 center == ModelCenter(L)
                 radius == ModelRadius(L)
             IN  /\ num_loads < MaxLoads
                 /\ meshes' = L.meshes
                 /\ buffers' = L.buffers
                 /\ live_images' = L.live_images
                 /\ live_views' = L.live_views
                 /\ next_id' = L.next_id
                 /\ model_center' = center
                 /\ model_radius' = radius
                 /\ cam_target' = center
                 /\ cam_distance' = FramingDistance(radius)
                 /\ cam_elevation' = RESET_ELEVATION
                 /\ cam_azimuth' = RESET_AZIMUTH
                 /\ model_loaded' = TRUE
                 /\ stale' = stale \cup made
                 /\ made' = L.made
                 /\ num_loads' = num_loads + 1
                 /\ trace' = L.trace
                 /\ last_call' = Returned("load_model", filepath, "true")

\* FilesDropped asking load_model for a file when the event carries none
FilesDroppedLoadingNothing(files) ==
    /\ phase = "running"
    /\ UNCHANGED gui_vars
    /\ load_model(IF Len(files) > 0 THEN files[1] ELSE "")
    /\ UNCHANGED <<pointer, defaults, phase>>

\* event(): SAPP_EVENTTYPE_FILES_DROPPED with the dropped paths
FilesDropped(files) ==
    /\ phase = "running"
    /\ UNCHANGED gui_vars
    /\ IF Len(files) > 0
       THEN load_model(files[1])
       ELSE /\ trace' = <<>>
            /\ last_call' = Returned("files_dropped", "", "void")
            /\ UNCHANGED <<model, camera, gpu, history>>
    /\ UNCHANGED <<pointer, defaults, phase>>

\* MouseDown starting a drag without capturing where the pointer is
MouseDownWithoutCapture(button, x, y) ==
    /\ phase = "running"
    /\ UNCHANGED gui_vars
    /\ IF button = "LEFT"
       THEN /\ mouse_down' = TRUE
            /\ UNCHANGED <<last_mouse_x, last_mouse_y>>
       ELSE UNCHANGED pointer
    /\ trace' = <<>>
    /\ last_call' = Returned("mouse_down", [button |-> button, x |-> x, y |-> y],
                             "void")
    /\ UNCHANGED <<model, camera, gpu, history, defaults, phase>>

\* event(): SAPP_EVENTTYPE_MOUSE_DOWN
MouseDown(button, x, y) ==
    /\ phase = "running"
    /\ UNCHANGED gui_vars
    /\ IF button = "LEFT"
       THEN /\ mouse_down' = TRUE
            /\ last_mouse_x' = x
            /\ last_mouse_y' = y
       ELSE UNCHANGED pointer
    /\ trace' = <<>>
    /\ last_call' = Returned("mouse_down", [button |-> button, x |-> x, y |-> y],
                             "void")
    /\ UNCHANGED <<model, camera, gpu, history, defaults, phase>>

\* event(): SAPP_EVENTTYPE_MOUSE_UP
MouseUp(button) ==
    /\ phase = "running"
    /\ UNCHANGED gui_vars
    /\ IF button = "LEFT"
       THEN mouse_down' = FALSE
       ELSE UNCHANGED mouse_down
    /\ trace' = <<>>
    /\ last_call' = Returned("mouse_up", "", "void")
    /\ UNCHANGED <<model, camera, gpu, history, defaults, phase,
                   last_mouse_x, last_mouse_y>>

\* MouseMove without the clamp of the elevation
MouseMoveUnclamped(x, y) ==
    /\ phase = "running"
    /\ UNCHANGED gui_vars
    /\ IF mouse_down
       THEN LET dx == x - last_mouse_x
                dy == y - last_mouse_y
            IN  /\ cam_azimuth - dx <= MaxAzimuth
                /\ cam_azimuth - dx >= -MaxAzimuth
                /\ cam_elevation + dy <= 4 * ELEVATION_MAX
                /\ cam_elevation + dy >= -4 * ELEVATION_MAX
                /\ cam_azimuth' = cam_azimuth - dx
                /\ cam_elevation' = cam_elevation + dy
                /\ last_mouse_x' = x
                /\ last_mouse_y' = y
       ELSE UNCHANGED <<cam_azimuth, cam_elevation, last_mouse_x, last_mouse_y>>
    /\ trace' = <<>>
    /\ last_call' = Returned("mouse_move", "", "void")
    /\ UNCHANGED <<model, cam_target, cam_distance, mouse_down, gpu, history,
                   defaults, phase>>

\* event(): SAPP_EVENTTYPE_MOUSE_MOVE
MouseMove(x, y) ==
    /\ phase = "running"
    /\ UNCHANGED gui_vars
    /\ IF mouse_down
       THEN LET dx == x - last_mouse_x
                dy == y - last_mouse_y
            IN  /\ cam_azimuth - dx <= MaxAzimuth
                /\ cam_azimuth - dx >= -MaxAzimuth
                /\ cam_azimuth' = cam_azimuth - dx
                /\ cam_elevation' =
                       HMM_Clamp(-ELEVATION_MAX, cam_elevation + dy, ELEVATION_MAX)
                /\ last_mouse_x' = x
                /\ last_mouse_y' = y
       ELSE UNCHANGED <<cam_azimuth, cam_elevation, last_mouse_x, last_mouse_y>>
    /\ trace' = <<>>
    /\ last_call' = Returned("mouse_move", "", "void")
    /\ UNCHANGED <<model, cam_target, cam_distance, mouse_down, gpu, history,
                   defaults, phase>>

\* cam_distance -= scroll_y * cam_distance * 0.1f
ScrollDistance(d, scroll_y) == d - ((scroll_y * d) \div 10)

\* MouseScroll without the floor on the distance
MouseScrollUnfloored(scroll_y) ==
    /\ phase = "running"
    /\ UNCHANGED gui_vars
    /\ ScrollDistance(cam_distance, scroll_y) <= MaxDistance
    /\ ScrollDistance(cam_distance, scroll_y) >= -MaxDistance
    /\ cam_distance' = ScrollDistance(cam_distance, scroll_y)
    /\ trace' = <<>>
    /\ last_call' = Returned("mouse_scroll", scroll_y, "void")
    /\ UNCHANGED <<model, cam_target, cam_azimuth, cam_elevation, pointer, gpu,
                   history, defaults, phase>>

\* event(): SAPP_EVENTTYPE_MOUSE_SCROLL
MouseScroll(scroll_y) ==
    /\ phase = "running"
    /\ UNCHANGED gui_vars
    /\ ScrollDistance(cam_distance, scroll_y) <= MaxDistance
    /\ cam_distance' = HMM_MAX(MIN_DISTANCE, ScrollDistance(cam_distance, scroll_y))
    /\ trace' = <<>>
    /\ last_call' = Returned("mouse_scroll", scroll_y, "void")
    /\ UNCHANGED <<model, cam_target, cam_azimuth, cam_elevation, pointer, gpu,
                   history, defaults, phase>>

\* KeyDown with a reset that leaves the azimuth where the drag put it
KeyDownKeepingAzimuth(key_code) ==
    /\ phase = "running"
    /\ UNCHANGED gui_vars
    /\ IF key_code = "R" /\ model_loaded
       THEN /\ cam_target' = model_center
            /\ cam_distance' = FramingDistance(model_radius)
            /\ cam_elevation' = RESET_ELEVATION
            /\ UNCHANGED cam_azimuth
       ELSE UNCHANGED camera
    /\ trace' = <<>>
    /\ last_call' = Returned("key_down", key_code, "void")
    /\ UNCHANGED <<model, pointer, gpu, history, defaults, phase>>

\* event(): SAPP_EVENTTYPE_KEY_DOWN
KeyDown(key_code) ==
    /\ phase = "running"
    /\ UNCHANGED gui_vars
    /\ IF key_code = "R" /\ model_loaded
       THEN /\ cam_target' = model_center
            /\ cam_distance' = FramingDistance(model_radius)
            /\ cam_elevation' = RESET_ELEVATION
            /\ cam_azimuth' = RESET_AZIMUTH
       ELSE UNCHANGED camera
    /\ trace' = <<>>
    /\ last_call' = Returned("key_down", key_code, "void")
    /\ UNCHANGED <<model, pointer, gpu, history, defaults, phase>>

\* pip_desc.index_type = SG_INDEXTYPE_UINT32: the one pipeline draws indexed
PIPELINE_INDEXED == TRUE

\* what sokol_gfx makes of sg_draw() under the applied pipeline and bindings.
\* Whether a draw is indexed is the pipeline's index_type, not the bindings.
\* Bindings that disagree with the pipeline are rejected by the validation
\* layer of a debug build, and the draw with them; a release build passes
\* them to the backend, which draws indexed with no index buffer (or plain
\* with one it ignores).
DrawKind(indexed, index_buffer_bound, validate) ==
    IF indexed = index_buffer_bound
    THEN (IF indexed THEN "indexed_draw" ELSE "non_indexed_draw")
    ELSE IF validate THEN "rejected_draw"
    ELSE IF indexed THEN "indexed_draw_without_buffer"
    ELSE "non_indexed_draw"

\* the draw loop of frame() for one mesh: the calls, and after sg_draw what
\* is drawn
DrawMesh(mesh, validate) ==
    LET count == IF mesh.has_indices THEN mesh.num_indices ELSE mesh.num_vertices
    IN  <<Call("bind_vertex_buffer", mesh.vertex_buffer, 0)>>
        \o (IF mesh.has_indices
            THEN <<Call("bind_index_buffer", mesh.index_buffer, 0)>>
            ELSE <<>>)
        \o <<Call("bind_view", mesh.texture_view, 0),
             Call("fs_params", 0, mesh.base_color),
             Call("sg_draw", 0, count),
             Call(DrawKind(PIPELINE_INDEXED, mesh.has_indices, validate), 0, count)>>

RECURSIVE DrawMeshes(_, _, _)
DrawMeshes(ms, i, validate) ==
    IF i > Len(ms) THEN <<>>
    ELSE DrawMesh(ms[i], validate) \o DrawMeshes(ms, i + 1, validate)

\* Frame turning the camera a step, as a turntable would
FrameTurningCamera(validate) ==
    /\ phase = "running"
    /\ UNCHANGED gui_vars
    /\ trace' = IF model_loaded THEN DrawMeshes(meshes, 1, validate) ELSE <<>>
    /\ last_call' = Returned("frame", "", "void")
    /\ cam_azimuth' = HMM_Clamp(-MaxAzimuth, cam_azimuth + 1, MaxAzimuth)
    /\ UNCHANGED <<model, cam_target, cam_distance, cam_elevation, pointer, gpu,
                   history, defaults, phase>>

\* frame(), in a build with (validate) or without sokol_gfx's validation
\* layer; state.time, which nothing reads, is left out
Frame(validate) ==
    /\ phase = "running"
    /\ UNCHANGED gui_vars
    /\ trace' = IF model_loaded THEN DrawMeshes(meshes, 1, validate) ELSE <<>>
    /\ last_call' = Returned("frame", "", "void")
    /\ UNCHANGED <<model, camera, pointer, gpu, history, defaults, phase>>

\* cleanup(): the sampler and the pipeline, which nothing else touches, are
\* left out
Cleanup ==
    /\ phase = "running"
    /\ UNCHANGED gui_vars
    /\ LET L1 == DestroyMeshes(Begin, meshes, 1)
           L2 == sg_destroy_image(sg_destroy_view(L1, default_texture_view),
                                  default_texture)
       IN  /\ buffers' = L2.buffers
           /\ live_images' = L2.live_images
           /\ live_views' = L2.live_views
           /\ trace' = L2.trace
    /\ phase' = "shutdown"
    /\ last_call' = Returned("cleanup", "", "void")
    /\ UNCHANGED <<model, camera, pointer, next_id, history, defaults>>

-----------------------------------------------------------------------------
(* Calls into the settings panel *)

\* sclay_handle_event(ev): the layout library's copy of the pointer position
\* (its copy of the button, which gui.c never reads, is left out)
sclay_handle_event(c, ev) ==
    IF ev.type = "MOUSE_MOVE"
    THEN [c EXCEPT !.pointer = [x |-> ev.x, row |-> ev.row]]
    ELSE c

\* gui_handle_event(ev)
GuiHandleEvent(ev) ==
    /\ clay' = sclay_handle_event(clay, ev)
    /\ gui_call' = GuiCall("gui_handle_event", ev, 0)
    /\ UNCHANGED <<gui_state, last_toggle_id, last_toggle_id_else, press_flipped,
                   viewer_vars>>

\* gui_new_frame(): sclay_new_frame() hands the pointer to the layout
\* library, which latches the elements of the last layout that it is over
GuiNewFrame ==
    /\ clay' = [clay EXCEPT !.over = {e \in clay.layout : Covers(e, clay.pointer)}]
    /\ gui_call' = GuiCall("gui_new_frame", NoEvent, 0)
    /\ UNCHANGED <<gui_state, last_toggle_id, last_toggle_id_else, press_flipped,
                   viewer_vars>>

\* gui_render(state); drawing the render commands changes nothing modelled
GuiRender ==
    /\ IF gui_state.show_gui = 0
       THEN UNCHANGED <<gui_state, clay, last_toggle_id, last_toggle_id_else,
                        press_flipped>>
       ELSE LET G == create_gui_layout(BeginLayout)
            IN  /\ gui_state' = G.state
                /\ clay' = [clay EXCEPT !.layout = G.declared,
                                        !.elements = @ \cup G.declared]
                /\ last_toggle_id' = G.last_toggle_id
                /\ last_toggle_id_else' = G.last_toggle_id_else
                /\ press_flipped' =
                       IF gui_state.mouse_pressed = 0 THEN FALSE
                       ELSE press_flipped \/ G.state.show_skybox # gui_state.show_skybox
    /\ gui_call' = GuiCall("gui_render", NoEvent, 0)
    /\ UNCHANGED viewer_vars

\* the code that owns the GuiState writes the fields gui.c only reads,
\* between two calls into gui.c
CallerWrites(show_gui, is_vrm_model, mouse_pressed, mouse_x) ==
    /\ gui_state' = [gui_state EXCEPT !.show_gui = show_gui,
                                      !.is_vrm_model = is_vrm_model,
                                      !.mouse_pressed = mouse_pressed,
                                      !.mouse_x = mouse_x]
    /\ gui_call' = GuiCall("caller", NoEvent, 0)
    /\ UNCHANGED <<clay, last_toggle_id, last_toggle_id_else, press_flipped,
                   viewer_vars>>

-----------------------------------------------------------------------------
(* Inputs and specifications *)

\* what one FILES_DROPPED event can carry (max_dropped_files = 1)
Drops(files) == {<<>>} \cup {<<f>> : f \in files}

MouseButtons == {"LEFT", "RIGHT"}
KeyCodes == {"R", "ESCAPE", "SPACE"}

Events(files, xs, ys, scrolls) ==
    \/ \E d \in Drops(files) : FilesDropped(d)
    \/ \E b \in MouseButtons, x \in xs, y \in ys : MouseDown(b, x, y)
    \/ \E b \in MouseButtons : MouseUp(b)
    \/ \E x \in xs, y \in ys : MouseMove(x, y)
    \/ \E s \in scrolls : MouseScroll(s)
    \/ \E k \in KeyCodes : KeyDown(k)
    \/ \E validate \in BOOLEAN : Frame(validate)
    \/ Cleanup

\* every asset, a pointer that moves up and down only, one scroll amount
Next == Events(AssetNames, {0}, {0, MouseFar}, {10})

Spec == Init /\ [][Next]_vars

\* a file that fails to parse and a tiny model, a pointer over the whole
\* window, scrolls of either sign
CameraFiles == {"broken.glb", "small.gltf"}
ScrollAmounts == {-10, 5, 10, 25}

NextCamera == Events(CameraFiles, {0, MouseFar}, {0, MouseFar}, ScrollAmounts)

SpecCamera == Init /\ [][NextCamera]_vars

\* the panel alone: pointer events left of, on and right of the widgets, level
\* with the Skybox toggle, the Exposure slider, the Light slider or none
PointerPlaces ==
    {[x |-> 400, row |-> 0], [x |-> 60, row |-> 0], [x |-> 140, row |-> 100],
     [x |-> 140, row |-> 101], [x |-> 140, row |-> 200]}
MouseXs == {0, 140, 400}
GuiEventTypes == {"MOUSE_MOVE", "MOUSE_DOWN", "KEY_DOWN"}
GuiEvents ==
    {[type |-> "MOUSE_MOVE", x |-> p.x, row |-> p.row] : p \in PointerPlaces}
    \cup {[type |-> t, x |-> clay.pointer.x, row |-> clay.pointer.row] :
             t \in GuiEventTypes \ {"MOUSE_MOVE"}}

NextGui ==
    \/ \E ev \in GuiEvents : GuiHandleEvent(ev)
    \/ GuiNewFrame
    \/ GuiRender
    \/ \E g \in {0, 1}, v \in {0, 1}, p \in {0, 1}, mx \in MouseXs :
           CallerWrites(g, v, p, mx)

\* the panel of a viewer started without a path
InitGui == Init /\ last_call.arg = ""

SpecGui == InitGui /\ [][NextGui]_vars

-----------------------------------------------------------------------------
(* Vocabulary of the properties *)

LoadReturned(ret) == last_call.cb = "load_model" /\ last_call.ret = ret

\* the asset of the file the latest load_model call was given
LoadedData == AssetOf(last_call.arg)

LiveIds == (DOMAIN buffers) \cup live_images \cup live_views

MeshHandles(mesh) ==
    {mesh.vertex_buffer, mesh.texture, mesh.texture_view}
    \cup (IF mesh.has_indices THEN {mesh.index_buffer} ELSE {})

\* the ids the latest callback passed to the calls named in ops
TraceIds(ops) == {trace[i].id : i \in {j \in DOMAIN trace : trace[j].op \in ops}}

DestroyOps == {"sg_destroy_buffer", "sg_destroy_image", "sg_destroy_view"}

Usable(prim) == prim.type = "triangles" /\ prim.has_position

\* the primitives of an asset that are to become meshes, node by node
RECURSIVE ExpectedPrims(_, _)
ExpectedPrims(data, ni) ==
    IF ni > Len(data.nodes) THEN <<>>
    ELSE (IF data.nodes[ni].mesh = 0 THEN <<>>
          ELSE SelectSeq(data.meshes[data.nodes[ni].mesh], Usable))
         \o ExpectedPrims(data, ni + 1)

-----------------------------------------------------------------------------
(* C1: a load_model call that returns false changes nothing: the mesh list,  *)
(* the GPU objects, the model's center and radius, the camera and            *)
(* model_loaded are what they were before the call, and the call creates    *)
(* and destroys no GPU object.                                               *)
FailedLoadChangesNothing ==
    [][(last_call'.cb = "load_model" /\ last_call'.ret = "false")
         => /\ UNCHANGED <<meshes, model_center, model_radius, model_loaded>>
            /\ UNCHANGED camera
            /\ UNCHANGED <<buffers, live_images, live_views, next_id>>
            /\ trace' = <<>>]_vars

\* a load has failed while a model was on display
FailedLoadOverModel ==
    /\ LoadReturned("false")
    /\ last_call.arg = "nobuffers.gltf"
    /\ model_loaded
    /\ Len(meshes) > 0

(* C2: after a successful load that follows an earlier one, the mesh list    *)
(* holds exactly the new asset's meshes, no mesh refers to a GPU object made *)
(* by an earlier load, and every object made by an earlier load has been     *)
(* destroyed, the destroy calls coming before the first push onto the list. *)
ReloadReleasesEarlierModel ==
    LoadReturned("true")
      => /\ Len(meshes) = Len(ExpectedPrims(LoadedData, 1))
         /\ \A k \in DOMAIN meshes : MeshHandles(meshes[k]) \cap stale = {}
         /\ stale \cap LiveIds = {}
         /\ \A i, j \in DOMAIN trace :
               (trace[i].op = "push_back" /\ trace[j].op \in DestroyOps) => j < i

(* C3: until cleanup runs, the default texture and its view are the ones     *)
(* init made, they are live, and no callback passes them to                  *)
(* sg_destroy_image / sg_destroy_view or makes them again.                   *)
DefaultTextureOutlivesModels ==
    phase = "running"
      => /\ default_texture \in live_images
         /\ default_texture_view \in live_views
         /\ default_texture \notin TraceIds({"sg_destroy_image"})
         /\ default_texture_view \notin TraceIds({"sg_destroy_view"})
         /\ last_call.cb # "init"
              => /\ default_texture \notin TraceIds({"sg_make_image"})
                 /\ default_texture_view \notin TraceIds({"sg_make_view"})

\* a load has just replaced a model whose meshes all used the default texture
ReplacedDefaultTexturedModel ==
    /\ LoadReturned("true")
    /\ num_loads = 2
    /\ TraceIds({"sg_destroy_buffer"}) # {}
    /\ TraceIds({"sg_destroy_image"}) = {}

-----------------------------------------------------------------------------
\* the baked positions of the model on display, read back from its vertex
\* buffers
BakedPositions ==
    UNION {{buffers[meshes[k].vertex_buffer].data[vi].pos :
               vi \in DOMAIN buffers[meshes[k].vertex_buffer].data} :
           k \in DOMAIN meshes}

Least(S) == CHOOSE x \in S : \A y \in S : x <= y
Greatest(S) == CHOOSE x \in S : \A y \in S : x >= y
Span(S, axis) == Greatest({p[axis] : p \in S}) - Least({p[axis] : p \in S})

\* half the diagonal of the bounding box of a non-empty set of positions
HalfDiagonal(S) ==
    sqrtf(Span(S, 1) * Span(S, 1) + Span(S, 2) * Span(S, 2)
          + Span(S, 3) * Span(S, 3)) \div 2

(* C4 as claimed: after every successful load, model.radius is never below   *)
(* the floor value 1.0.                                                      *)
RadiusNeverBelowFloor ==
    LoadReturned("true") => model_radius >= RADIUS_FLOOR

(* C4, amended: after every successful load, model.radius is at least the    *)
(* epsilon 0.001, and it is exactly 1.0 whenever half the diagonal of the    *)
(* bounding box of the baked positions is below that epsilon.                *)
RadiusReplacedBelowEpsilon ==
    LoadReturned("true")
      => /\ model_radius >= RADIUS_EPS
         /\ (BakedPositions # {} /\ HalfDiagonal(BakedPositions) < RADIUS_EPS)
               => model_radius = RADIUS_FLOOR

\* coincident vertices have been loaded and the radius is the floor
LoadedCoincidentVertices ==
    /\ LoadReturned("true")
    /\ Cardinality(BakedPositions) > 1
    /\ HalfDiagonal(BakedPositions) < RADIUS_EPS
    /\ model_radius = RADIUS_FLOOR

-----------------------------------------------------------------------------
KeyReturned(key_code) == last_call.cb = "key_down" /\ last_call.arg = key_code

\* the camera reset-camera and load_model aim for
Framing == <<model_center, FramingDistance(model_radius), RESET_AZIMUTH,
             RESET_ELEVATION>>

(* C5 as claimed: in every reachable state, pressing R leaves the camera at  *)
(* target = model.center, distance = model.radius * 2.5, azimuth = 45,       *)
(* elevation = 15.                                                           *)
ResetAlwaysFrames ==
    KeyReturned("R") => camera = Framing

(* C5, amended: pressing R changes neither the model nor the pointer state;  *)
(* once a model has been loaded it leaves the camera at target =             *)
(* model.center, distance = model.radius * 2.5, azimuth = 45, elevation =    *)
(* 15, and before that it leaves the camera as it was; so a second press     *)
(* yields the state the first one did.                                       *)
ResetFramesLoadedModel ==
    [][(last_call'.cb = "key_down" /\ last_call'.arg = "R")
         => /\ UNCHANGED <<meshes, model_center, model_radius, model_loaded>>
            /\ UNCHANGED <<mouse_down, last_mouse_x, last_mouse_y>>
            /\ IF model_loaded THEN camera' = Framing' ELSE UNCHANGED camera]_vars

\* R has been pressed, with a model loaded, in the middle of a drag
ResetDuringDrag ==
    /\ KeyReturned("R")
    /\ model_loaded
    /\ mouse_down
    /\ last_mouse_x = MouseFar
    /\ camera = Framing

-----------------------------------------------------------------------------
(* C6 as claimed: in every reachable state cam_elevation lies strictly       *)
(* inside (-89, 89).                                                         *)
ElevationStrictlyInside ==
    -ELEVATION_MAX < cam_elevation /\ cam_elevation < ELEVATION_MAX

(* C6, amended: in every reachable state cam_elevation lies in the closed    *)
(* interval [-89, 89]; a drag that would push it past either end leaves it   *)
(* pinned at that end, 89 or -89.                                            *)
ElevationWithinClamp ==
    [][/\ -ELEVATION_MAX <= cam_elevation' /\ cam_elevation' <= ELEVATION_MAX
       /\ (last_call'.cb = "mouse_move" /\ mouse_down
             /\ cam_elevation + (last_mouse_y' - last_mouse_y) > ELEVATION_MAX)
            => cam_elevation' = ELEVATION_MAX
       /\ (last_call'.cb = "mouse_move" /\ mouse_down
             /\ cam_elevation + (last_mouse_y' - last_mouse_y) < -ELEVATION_MAX)
            => cam_elevation' = -ELEVATION_MAX]_vars

\* a drag has pinned the elevation at 89
ElevationPinned ==
    /\ last_call.cb = "mouse_move"
    /\ mouse_down
    /\ cam_elevation = ELEVATION_MAX

-----------------------------------------------------------------------------
\* the latest load_model call was given a file both cgltf calls accept
LoadedParsedFile ==
    last_call.cb = "load_model" /\ LoadedData.parse_ok /\ LoadedData.buffers_ok

\* the image (1-based, 0 for none) a primitive's base color texture names
PrimImage(prim) ==
    IF prim.material.present /\ prim.material.has_pbr /\ prim.material.has_texture
    THEN prim.material.image
    ELSE 0

\* the images of an asset that stb_image is given and decodes
DecodedImages(data) ==
    {i \in DOMAIN data.images :
        data.images[i].source # "none" /\ data.images[i].decodes}

NumTraceCalls(op) == Cardinality({i \in DOMAIN trace : trace[i].op = op})

(* C7: when an image of the asset fails to decode, load_model still returns  *)
(* true, every mesh whose material references that image has the default    *)
(* texture and the default view, and no GPU image or view is made for that   *)
(* image: images and views are made for the decoded images only.            *)
TextureFallbackOnDecodeFailure ==
    LoadedParsedFile
      => LET prims == ExpectedPrims(LoadedData, 1)
         IN  /\ last_call.ret = "true"
             /\ Len(meshes) = Len(prims)
             /\ \A k \in DOMAIN prims :
                   (/\ PrimImage(prims[k]) # 0
                    /\ PrimImage(prims[k]) \notin DecodedImages(LoadedData))
                   => /\ meshes[k].texture = default_texture
                      /\ meshes[k].texture_view = default_texture_view
             /\ NumTraceCalls("sg_make_image") = Cardinality(DecodedImages(LoadedData))
             /\ NumTraceCalls("sg_make_view") = Cardinality(DecodedImages(LoadedData))

\* an asset whose external and embedded images both fail to decode is loaded
LoadedWithMissingTextures ==
    /\ LoadReturned("true")
    /\ last_call.arg = "missingtex.gltf"
    /\ Len(meshes) = 3
    /\ meshes[1].texture = default_texture
    /\ meshes[2].texture_view = default_texture_view

(* C8: for every primitive with an index accessor of count M, the mesh has   *)
(* has_indices = true, num_indices = M and an index buffer of exactly M      *)
(* entries, each less than the mesh's num_vertices.                          *)
IndexBufferWithinVertices ==
    LoadReturned("true")
      => LET prims == ExpectedPrims(LoadedData, 1)
         IN  /\ Len(meshes) = Len(prims)
             /\ \A k \in DOMAIN prims :
                   prims[k].has_indices
                   => /\ meshes[k].has_indices
                      /\ meshes[k].num_indices = Len(prims[k].indices)
                      /\ meshes[k].index_buffer \in DOMAIN buffers
                      /\ Len(buffers[meshes[k].index_buffer].data)
                            = Len(prims[k].indices)
                      /\ \A i \in DOMAIN buffers[meshes[k].index_buffer].data :
                            buffers[meshes[k].index_buffer].data[i]
                               < meshes[k].num_vertices

(* C9: has_indices is false iff index_buffer is unset, for every mesh in the *)
(* mesh list; and a primitive with N positions and no index accessor yields  *)
(* a mesh with num_vertices = N, has_indices = false and index_buffer unset, *)
(* load_model making no buffer beyond one vertex buffer per mesh and one     *)
(* index buffer per indexed primitive.                                       *)
UnindexedMeshHasNoIndexBuffer ==
    /\ \A k \in DOMAIN meshes :
          (meshes[k].has_indices = FALSE) <=> (meshes[k].index_buffer = SG_INVALID_ID)
    /\ LoadReturned("true")
         => LET prims == ExpectedPrims(LoadedData, 1)
                indexed == {k \in DOMAIN prims : prims[k].has_indices}
            IN  /\ Len(meshes) = Len(prims)
                /\ \A k \in (DOMAIN prims) \ indexed :
                      /\ meshes[k].num_vertices = Len(prims[k].positions)
                      /\ meshes[k].has_indices = FALSE
                      /\ meshes[k].index_buffer = SG_INVALID_ID
                /\ NumTraceCalls("sg_make_buffer") = Len(prims) + Cardinality(indexed)

\* a single primitive with one position and no indices has been loaded
LoadedSingleUnindexedPrimitive ==
    /\ LoadReturned("true")
    /\ last_call.arg = "point.glb"
    /\ Len(meshes) = 1
    /\ meshes[1].num_vertices = 1
    /\ meshes[1].index_buffer = SG_INVALID_ID
    /\ NumTraceCalls("sg_make_buffer") = 1

-----------------------------------------------------------------------------
(* C10: a scroll event with amount s sets cam_distance to                    *)
(* max(0.1, d - s*d*0.1), d being the distance before it, and cam_distance   *)
(* is strictly positive in every reachable state.                            *)
ScrollKeepsDistancePositive ==
    /\ [](cam_distance > 0)
    /\ [][last_call'.cb = "mouse_scroll"
            => LET s == last_call'.arg
                   scrolled == cam_distance - (s * cam_distance) \div 10
               IN  cam_distance' = IF scrolled > MIN_DISTANCE THEN scrolled
                                                              ELSE MIN_DISTANCE]_vars

\* a large scroll towards a tiny model has stopped at the floor
ScrolledIntoFloor ==
    /\ last_call.cb = "mouse_scroll"
    /\ last_call.arg = 25
    /\ model_loaded
    /\ model_radius < MIN_DISTANCE
    /\ cam_distance = MIN_DISTANCE

-----------------------------------------------------------------------------
\* whether the most recent call into gui.c was fn
GuiReturned(fn) == gui_call.fn = fn

\* a pointer event that lands on the laid-out panel
LandsOnPanel(ev) ==
    /\ ev.type \in {"MOUSE_MOVE", "MOUSE_DOWN"}
    /\ LeftPanel \in clay.layout
    /\ Covers(LeftPanel, ev)

(* C11: gui_render returns 1 if the call changed a GuiState value (a toggle  *)
(* flipped or a slider value changed during that call) and 0 otherwise.      *)
RenderReportsModification ==
    [][gui_call'.fn = "gui_render"
          => (gui_call'.ret = 1 <=> gui_state' # gui_state)]_vars

(* C12: gui_handle_event returns 1 when the event was consumed by the GUI    *)
(* (a pointer event landing on the panel) and 0 only when it was not.        *)
HandleEventReportsConsumed ==
    GuiReturned("gui_handle_event")
        => (gui_call.ret = 1 <=> LandsOnPanel(gui_call.ev))

-----------------------------------------------------------------------------
\* the node matrix each primitive of ExpectedPrims is baked with
RECURSIVE ExpectedMatrices(_, _)
ExpectedMatrices(data, ni) ==
    IF ni > Len(data.nodes) THEN <<>>
    ELSE (IF data.nodes[ni].mesh = 0 THEN <<>>
          ELSE [k \in DOMAIN SelectSeq(data.meshes[data.nodes[ni].mesh], Usable)
                   |-> data.nodes[ni].matrix])
         \o ExpectedMatrices(data, ni + 1)

\* the vertices uploaded for the k-th mesh
MeshVertices(k) == buffers[meshes[k].vertex_buffer].data

-----------------------------------------------------------------------------
\* load_model has been called by the latest callback
LoadInvoked == last_call.ret \in {"true", "false"}

-----------------------------------------------------------------------------
\* the handles of a mesh were all made by the load that built the current
\* model, or are the default texture's
OfCurrentModel(mesh) ==
    /\ mesh.vertex_buffer \in made
    /\ mesh.has_indices => mesh.index_buffer \in made
    /\ mesh.texture \in made \cup {default_texture}
    /\ mesh.texture_view \in made \cup {default_texture_view}

(* C15: every frame that draws binds only live GPU handles (vertex buffer,   *)
(* index buffer, texture view over a live image), one draw per mesh of the   *)
(* list; the mesh list a frame sees is one complete model, never a mix of    *)
(* an old and a new one: load_model leaves the list either as it was or as   *)
(* the whole of what the dropped file yields.                                *)
FrameBindsLiveHandles ==
    /\ [](\A k \in DOMAIN meshes : OfCurrentModel(meshes[k]))
    /\ [](last_call.cb = "frame"
            => /\ TraceIds({"bind_vertex_buffer", "bind_index_buffer"})
                     \subseteq DOMAIN buffers
               /\ TraceIds({"bind_view"}) \subseteq live_views
               /\ \A k \in DOMAIN meshes : meshes[k].texture \in live_images
               /\ NumTraceCalls("sg_draw")
                     = IF model_loaded THEN Len(meshes) ELSE 0)
    /\ [][last_call'.cb = "load_model"
            => \/ last_call'.ret = "false" /\ meshes' = meshes
               \/ /\ last_call'.ret = "true"
                  /\ Len(meshes') = Len(ExpectedPrims(AssetOf(last_call'.arg), 1))]_vars

\* a frame has drawn the meshes of a model that replaced an earlier one
FrameDrewReloadedModel ==
    /\ last_call.cb = "frame"
    /\ stale # {}
    /\ Len(meshes) >= 2
    /\ NumTraceCalls("sg_draw") = Len(meshes)

-----------------------------------------------------------------------------
(* C16: after a successful load the mesh list holds exactly one RenderMesh   *)
(* per pair of a node with a mesh and a primitive of that mesh that is a     *)
(* triangle list with a position accessor, in node-then-primitive order;     *)
(* every other primitive adds no mesh, makes no GPU buffer and does not      *)
(* fail the load.                                                            *)
OneMeshPerTrianglePrimitive ==
    LoadedParsedFile
      => LET prims == ExpectedPrims(LoadedData, 1)
             mats == ExpectedMatrices(LoadedData, 1)
             indexed == {k \in DOMAIN prims : prims[k].has_indices}
         IN  /\ last_call.ret = "true"
             /\ Len(meshes) = Len(prims)
             /\ \A k \in DOMAIN prims :
                   /\ meshes[k].num_vertices = Len(prims[k].positions)
                   /\ meshes[k].has_indices = prims[k].has_indices
                   /\ Len(MeshVertices(k)) = Len(prims[k].positions)
                   /\ \A vi \in DOMAIN prims[k].positions :
                         MeshVertices(k)[vi].pos
                            = TransformPoint(mats[k], prims[k].positions[vi])
                   /\ \A j \in DOMAIN prims :
                         j < k => meshes[j].vertex_buffer < meshes[k].vertex_buffer
             /\ NumTraceCalls("push_back") = Len(prims)
             /\ NumTraceCalls("sg_make_buffer") = Len(prims) + Cardinality(indexed)

\* an asset whose second mesh comes first and whose first mesh, with a point
\* primitive between two triangle primitives, is placed twice has been loaded
LoadedInstancedMeshes ==
    /\ LoadReturned("true")
    /\ last_call.arg = "instanced.glb"
    /\ Len(meshes) = 5
    /\ meshes[1].num_vertices = 4
    /\ MeshVertices(2)[2].pos = <<600, 0, -200>>
    /\ MeshVertices(4)[2].pos = <<200, 0, 0>>

-----------------------------------------------------------------------------
\* the ids the latest callback got from sg_make_image, in order
MadeImages == SelectSeq(trace, LAMBDA c : c.op = "sg_make_image")

(* C17: within one load each image of the asset is decoded and uploaded at   *)
(* most once; two meshes whose materials name the same image have the same   *)
(* texture and view handles; a mesh without a base color texture (or without *)
(* a material) has the default texture and the default view.                 *)
ImagesUploadedOncePerLoad ==
    LoadReturned("true")
      => LET prims == ExpectedPrims(LoadedData, 1)
         IN  /\ Len(meshes) = Len(prims)
             /\ Len(MadeImages) <= Len(LoadedData.images)
             /\ \A i, j \in DOMAIN MadeImages :
                   i # j => MadeImages[i].id # MadeImages[j].id
             /\ \A j, k \in DOMAIN prims :
                   (PrimImage(prims[j]) # 0 /\ PrimImage(prims[j]) = PrimImage(prims[k]))
                   => /\ meshes[j].texture = meshes[k].texture
                      /\ meshes[j].texture_view = meshes[k].texture_view
             /\ \A k \in DOMAIN prims :
                   PrimImage(prims[k]) = 0
                   => /\ meshes[k].texture = default_texture
                      /\ meshes[k].texture_view = default_texture_view

\* two placements of one textured primitive share the one image made by the
\* load, next to meshes that have the default texture
LoadedSharedImage ==
    /\ LoadReturned("true")
    /\ last_call.arg = "instanced.glb"
    /\ Len(MadeImages) = 1
    /\ meshes[2].texture = MadeImages[1].id
    /\ meshes[4].texture = meshes[2].texture
    /\ meshes[4].texture_view = meshes[2].texture_view
    /\ meshes[1].texture = default_texture
    /\ meshes[3].texture_view = default_texture_view

-----------------------------------------------------------------------------
(* C18: every successful load ends with cam_target = model.center,           *)
(* cam_distance = model.radius * 2.5, azimuth 45, elevation 15 and           *)
(* model_loaded = true; once model_loaded is true no later event, a failed   *)
(* load included, makes it false.                                            *)
LoadFramesModelForGood ==
    /\ [](LoadReturned("true")
            => /\ cam_target = model_center
               /\ 2 * cam_distance <= 5 * model_radius
               /\ 2 * cam_distance > 5 * model_radius - 2
               /\ cam_azimuth = RESET_AZIMUTH
               /\ cam_elevation = RESET_ELEVATION
               /\ model_loaded)
    /\ [][model_loaded => model_loaded']_vars

\* a second model has been loaded in the middle of a drag and framed
ReloadedDuringDrag ==
    /\ LoadReturned("true")
    /\ num_loads = 2
    /\ mouse_down
    /\ last_mouse_y = MouseFar
    /\ cam_target # <<0, 0, 0>>
    /\ cam_target = model_center

-----------------------------------------------------------------------------
-----------------------------------------------------------------------------
DrawKinds ==
    {"indexed_draw", "non_indexed_draw", "rejected_draw",
     "indexed_draw_without_buffer"}

\* what the latest frame drew, and the base colors it set, in order
Drawn == SelectSeq(trace, LAMBDA c : c.op \in DrawKinds)
BaseColors == SelectSeq(trace, LAMBDA c : c.op = "fs_params")

(* C20: each frame issues exactly one draw per mesh, in mesh-list order: an  *)
(* indexed draw of num_indices elements if the mesh has indices and          *)
(* otherwise a non-indexed draw of num_vertices, each with that mesh's base  *)
(* color; while no model has been loaded a frame issues no draw.             *)
FrameDrawsEachMesh ==
    last_call.cb = "frame"
      => IF model_loaded
         THEN /\ Len(Drawn) = Len(meshes)
              /\ Len(BaseColors) = Len(meshes)
              /\ \A k \in DOMAIN meshes :
                    /\ Drawn[k] = IF meshes[k].has_indices
                                  THEN Call("indexed_draw", 0, meshes[k].num_indices)
                                  ELSE Call("non_indexed_draw", 0, meshes[k].num_vertices)
                    /\ BaseColors[k].n = meshes[k].base_color
         ELSE NumTraceCalls("sg_draw") = 0 /\ Len(Drawn) = 0

-----------------------------------------------------------------------------
MakeOps == {"sg_make_buffer", "sg_make_image", "sg_make_view"}

(* C21: a frame() call performs no mutation: it leaves cam_target,           *)
(* cam_distance, cam_azimuth, cam_elevation, the drag state (mouse_down and  *)
(* the last pointer position), the mesh list, the model's center and radius  *)
(* and model_loaded unchanged, and it creates and destroys no GPU resource.  *)
FrameMutatesNothing ==
    [][last_call'.cb = "frame"
         => /\ UNCHANGED camera
            /\ UNCHANGED pointer
            /\ UNCHANGED model
            /\ UNCHANGED gpu
            /\ \A i \in DOMAIN trace' : trace'[i].op \notin MakeOps \cup DestroyOps]_vars

\* a frame has drawn a loaded model in the middle of a drag that has turned
\* the camera
FrameDrewDuringDrag ==
    /\ last_call.cb = "frame"
    /\ model_loaded
    /\ NumTraceCalls("sg_draw") > 0
    /\ mouse_down
    /\ last_mouse_y = MouseFar
    /\ cam_elevation # RESET_ELEVATION

-----------------------------------------------------------------------------
\* the destroy calls of a sequence of calls, in order
Destroys(calls) == SelectSeq(calls, LAMBDA c : c.op \in DestroyOps)

(* C22: no GPU handle is destroyed more than once: over any sequence of      *)
(* loads followed by cleanup, each buffer, image and view a load made is     *)
(* passed to its sg_destroy_* function at most once, also when several       *)
(* meshes of one model share a texture and its view.  (A handle is live      *)
(* until its first destroy call and ids are never made twice, so a destroy   *)
(* call is a handle's first exactly when the handle was live before the      *)
(* callback and no earlier call of the callback destroyed it.)               *)
NoHandleDestroyedTwice ==
    [][LET destroyed == Destroys(trace')
       IN  \A i \in DOMAIN destroyed :
              /\ destroyed[i].id \in LiveIds
              /\ \A j \in DOMAIN destroyed :
                    j < i => destroyed[j].id # destroyed[i].id]_vars

-----------------------------------------------------------------------------
\* the step is a gui_render call that lays the panel out
LaysOut == gui_call'.fn = "gui_render" /\ gui_state.show_gui # 0

\* the button is down over the Skybox toggle as the call starts
PressedOverToggle ==
    gui_state.mouse_pressed # 0 /\ Clay_PointerOver(clay, ToggleButton(100))

(* C23: each press of the mouse over the Skybox toggle flips show_skybox     *)
(* exactly once: of several consecutive gui_render calls with the button     *)
(* held over the toggle only the first flips it, and after the button has    *)
(* been released a later press over the toggle flips it again.               *)
ToggleFlipsOncePerPress ==
    [][LaysOut
         => (gui_state'.show_skybox # gui_state.show_skybox
                <=> (PressedOverToggle /\ ~press_flipped))]_vars

-----------------------------------------------------------------------------
\* the sliders of the panel: id, GuiState field, range, and whether the slider
\* belongs to the group that is laid out for a VRM model only
Slider(id, field, min_val, max_val, vrm_only) ==
    [id |-> id, field |-> field, min_val |-> min_val, max_val |-> max_val,
     vrm_only |-> vrm_only]

Sliders ==
    {Slider(101, "skybox_exposure", 100, 5000, FALSE),
     Slider(102, "skybox_lod", 0, 4000, FALSE),
     Slider(200, "toon_light_intensity", 0, 3000, TRUE),
     Slider(201, "toon_shade_toony", 0, 1000, TRUE),
     Slider(202, "toon_shade_strength", 0, 1000, TRUE),
     Slider(203, "toon_rim_threshold", 0, 1000, TRUE),
     Slider(204, "toon_rim_softness", 0, 1000, TRUE),
     Slider(205, "toon_spec_intensity", 0, 1000, TRUE)}

\* the button is down over the track of slider s, whose element data is found
PressedOverTrack(s) ==
    /\ gui_state.mouse_pressed # 0
    /\ Clay_PointerOver(clay, SliderTrack(s.id))
    /\ Clay_GetElementData(clay, SliderTrack(s.id)).found

\* min + clamp((mouse_x - box.x) / box.width, 0, 1) * (max - min), in
\* thousandths
SliderValueAt(s, mouse_x) ==
    LET box == BoundingBox(SliderTrack(s.id))
        normalized == HMM_Clamp(0, ((mouse_x - box.x) * 1000) \div box.width, 1000)
    IN  s.min_val + ((normalized * (s.max_val - s.min_val)) \div 1000)

(* C24: a slider changes its value only in a gui_render call where           *)
(* mouse_pressed is set and the pointer is over that slider's track with     *)
(* element data found; the value written is                                  *)
(* min + clamp((mouse_x - box.x) / box.width, 0, 1) * (max - min), hence     *)
(* within [min, max]; the sliders leave every other GuiState field           *)
(* unchanged; with show_gui = 0 gui_render changes no GuiState field.        *)
SliderFollowsPressedPointer ==
    [][gui_call'.fn = "gui_render"
         => /\ gui_state.show_gui = 0 => gui_state' = gui_state
            /\ \A s \in Sliders :
                  /\ gui_state'[s.field] # gui_state[s.field]
                        => /\ PressedOverTrack(s)
                           /\ gui_state'[s.field] >= s.min_val
                           /\ gui_state'[s.field] <= s.max_val
                  /\ (/\ gui_state.show_gui # 0
                      /\ PressedOverTrack(s)
                      /\ s.vrm_only => gui_state.is_vrm_model # 0)
                        => gui_state'[s.field] = SliderValueAt(s, gui_state.mouse_x)
            /\ \A f \in DOMAIN gui_state :
                  f \notin {s.field : s \in Sliders} \cup {"show_skybox"}
                     => gui_state'[f] = gui_state[f]]_vars

\* the Exposure slider has been dragged to a place inside its track, after
\* the Light slider was dragged past the right end of its own
DraggedSliders ==
    /\ GuiReturned("gui_render")
    /\ gui_state.mouse_pressed = 1
    /\ gui_state.mouse_x = 140
    /\ SliderTrack(101) \in clay.over
    /\ gui_state.skybox_exposure = 1521
    /\ gui_state.toon_light_intensity = 3000

-----------------------------------------------------------------------------
(* C25: a successful load that bakes no vertex (no node references a mesh,   *)
(* or every primitive is skipped) ends with an empty mesh list, model.center *)
(* at the origin, model.radius = 1.0 and cam_distance = 2.5; after any       *)
(* successful load model.radius is either 1.0 or half the diagonal of the    *)
(* bounding box of the baked vertex positions.                               *)
EmptyLoadIsDegenerate ==
    LoadReturned("true")
      => /\ BakedPositions = {}
               => /\ meshes = <<>>
                  /\ model_center = <<0, 0, 0>>
                  /\ model_radius = RADIUS_FLOOR
                  /\ 2 * cam_distance = 5 * RADIUS_FLOOR
         /\ \/ model_radius = RADIUS_FLOOR
            \/ /\ BakedPositions # {}
               /\ model_radius = HalfDiagonal(BakedPositions)

====
